---------------------------- MODULE Spec2Model ----------------------------
(***************************************************************************)
(* Model of the rescale metrics of neural-mechanics:                       *)
(*   src/metrics/rescale.py        compute_empirical, compute_theoretical, *)
(*                                 compute_theoretical_momentum, rescale,  *)
(*                                 rescale_momentum                        *)
(*   src/visualizations/utils.py   MODELS, in_synapses, out_synapses,      *)
(*                                 get_features, load_features             *)
(*                                                                         *)
(* Numbers.  A scalar is a pair <<n, d>>: the rational n/d in lowest terms *)
(* with d > 0, or one of the three non-finite values of the floating point *)
(* format, NaN = <<0,0>>, +inf = <<1,0>>, -inf = <<-1,0>>.  Arithmetic on  *)
(* finite values is exact, so rounding is not modelled.  np.exp, np.cos    *)
(* and np.sin are evaluated on integer arguments only, with base 2 in      *)
(* place of e and the quarter turn in place of the radian: Exp(0) = 1,     *)
(* Exp(a+b) = Exp(a)*Exp(b), Cos(0) = 1, Sin(0) = 0, Cos^2 + Sin^2 = 1.    *)
(* The hyperparameter sets below are chosen so that every argument the     *)
(* code passes to them is an integer and every square root is rational.    *)
(*                                                                         *)
(* Tensors.  A tensor is [shape, data]: data is the row-major flattening.  *)
(***************************************************************************)
EXTENDS Integers, Sequences, FiniteSets, TLC

\* ------------------------------------------------------------------ bounds
\* steps are drawn from 0..MaxStep
MaxStep == 2
\* conv layers kept from the head of the vgg16 layer list
MaxConv == 3
\* seeds of the tensor generator: 0..MaxSeed
MaxSeed == 1

\* ----------------------------------------------------------------- scalars
NaN == <<0, 0>>
PInf == <<1, 0>>
NInf == <<-1, 0>>
Zero == <<0, 1>>
One == <<1, 1>>

Abs(n) == IF n < 0 THEN -n ELSE n
Sgn(n) == IF n < 0 THEN -1 ELSE IF n = 0 THEN 0 ELSE 1

RECURSIVE GCD(_, _)
GCD(a, b) == IF b = 0 THEN a ELSE GCD(b, a % b)

\* n/d in lowest terms, d # 0
Norm(n, d) ==
  LET g == GCD(Abs(n), Abs(d))
      s == Sgn(d)
  IN  <<(s * n) \div g, Abs(d) \div g>>

Num(n) == <<n, 1>>
IsNaN(a) == a = NaN
IsFinite(a) == a[2] # 0

XNeg(a) == <<-a[1], a[2]>>

XAdd(a, b) ==
  IF IsNaN(a) \/ IsNaN(b) THEN NaN
  ELSE IF ~IsFinite(a) /\ ~IsFinite(b) THEN (IF a = b THEN a ELSE NaN)
  ELSE IF ~IsFinite(a) THEN a
  ELSE IF ~IsFinite(b) THEN b
  ELSE Norm(a[1] * b[2] + b[1] * a[2], a[2] * b[2])

XSub(a, b) == XAdd(a, XNeg(b))

XMul(a, b) ==
  IF IsNaN(a) \/ IsNaN(b) THEN NaN
  ELSE IF ~IsFinite(a) \/ ~IsFinite(b)
       THEN (IF a[1] = 0 \/ b[1] = 0 THEN NaN ELSE <<Sgn(a[1]) * Sgn(b[1]), 0>>)
  ELSE Norm(a[1] * b[1], a[2] * b[2])

XDiv(a, b) ==
  IF IsNaN(a) \/ IsNaN(b) THEN NaN
  ELSE IF ~IsFinite(a) /\ ~IsFinite(b) THEN NaN
  ELSE IF ~IsFinite(a) THEN <<Sgn(a[1]) * (IF b[1] < 0 THEN -1 ELSE 1), 0>>
  ELSE IF ~IsFinite(b) THEN Zero
  ELSE IF b[1] = 0 THEN (IF a[1] = 0 THEN NaN ELSE <<Sgn(a[1]), 0>>)
  ELSE Norm(a[1] * b[2], a[2] * b[1])

XLt(a, b) == IsFinite(a) /\ IsFinite(b) /\ a[1] * b[2] < b[1] * a[2]

RECURSIVE Pow2(_)
Pow2(n) == IF n = 0 THEN 1 ELSE 2 * Pow2(n - 1)

\* np.exp on an integer argument (base 2, see the header)
Exp(a) == IF a[1] >= 0 THEN <<Pow2(a[1]), 1>> ELSE <<1, Pow2(-a[1])>>

\* np.cos, np.sin on an integer number of quarter turns
Cos(a) == Num(<<1, 0, -1, 0>>[(a[1] % 4) + 1])
Sin(a) == Num(<<0, 1, 0, -1>>[(a[1] % 4) + 1])

ISqrt(n) == CHOOSE r \in 0..n : r * r = n
\* np.sqrt: NaN for a negative argument, exact on the squares
Sqrt(a) == IF a[1] < 0 THEN NaN ELSE <<ISqrt(a[1]), ISqrt(a[2])>>

\* ----------------------------------------------------------------- tensors
RECURSIVE Prod(_)
Prod(s) == IF s = <<>> THEN 1 ELSE s[1] * Prod(Tail(s))

RECURSIVE SumSeq(_)
SumSeq(s) == IF s = <<>> THEN Zero ELSE XAdd(s[1], SumSeq(Tail(s)))

Tensor(shape, data) == [shape |-> shape, data |-> data]
\* np.ndim
ndim(T) == Len(T.shape)

\* T ** 2, elementwise
TSq(T) == Tensor(T.shape, [j \in DOMAIN T.data |-> XMul(T.data[j], T.data[j])])
\* c * T for a scalar c
TScale(c, T) == Tensor(T.shape, [j \in DOMAIN T.data |-> XMul(c, T.data[j])])
\* A + B, A - B for equal shapes
TAdd(A, B) == Tensor(A.shape, [j \in DOMAIN A.data |-> XAdd(A.data[j], B.data[j])])
TSub(A, B) == Tensor(A.shape, [j \in DOMAIN A.data |-> XSub(A.data[j], B.data[j])])
\* np.all(np.isfinite(T))
AllFinite(T) == \A j \in DOMAIN T.data : IsFinite(T.data[j])

\* the element of a rank-4 tensor at (o, i, h, w), 0-based
At4(T, o, i, h, w) ==
  T.data[((o * T.shape[2] + i) * T.shape[3] + h) * T.shape[4] + w + 1]
\* the element of a rank-2 tensor at (o, i), 0-based
At2(T, o, i) == T.data[o * T.shape[2] + i + 1]

\* np.sum(W, axis=(1,2,3)) for rank 4, np.sum(W, axis=1) otherwise
SumKeepAxis0(W) ==
  IF ndim(W) = 4
  THEN Tensor(<<W.shape[1]>>,
         [o \in 1..W.shape[1] |->
            SumSeq([j \in 1..(W.shape[2] * W.shape[3] * W.shape[4]) |->
                      W.data[(o - 1) * W.shape[2] * W.shape[3] * W.shape[4] + j]])])
  ELSE Tensor(<<W.shape[1]>>,
         [o \in 1..W.shape[1] |->
            SumSeq([i \in 1..W.shape[2] |-> At2(W, o - 1, i - 1)])])

\* np.sum(W, axis=(0,2,3)) for rank 4, np.sum(W, axis=0) otherwise
SumKeepAxis1(W) ==
  IF ndim(W) = 4
  THEN Tensor(<<W.shape[2]>>,
         [i \in 1..W.shape[2] |->
            SumSeq([j \in 1..(W.shape[1] * W.shape[3] * W.shape[4]) |->
                      LET hw == W.shape[3] * W.shape[4]
                          o == (j - 1) \div hw
                          r == (j - 1) % hw
                      IN  At4(W, o, i - 1, r \div W.shape[4], r % W.shape[4])])])
  ELSE Tensor(<<W.shape[2]>>,
         [i \in 1..W.shape[2] |->
            SumSeq([o \in 1..W.shape[1] |-> At2(W, o - 1, i - 1)])])

\* the absent bias argument (b=None)
None == Tensor(<<>>, <<>>)

\* in_synapses with 1 added to every entry of the sum
in_synapses_PlusOne(W, b) ==
  LET in_sum == SumKeepAxis0(W)
      one == Tensor(in_sum.shape, [j \in DOMAIN in_sum.data |-> One])
  IN  IF b # None THEN TAdd(TAdd(in_sum, one), b) ELSE TAdd(in_sum, one)

\* in_synapses(W, b=None)
in_synapses(W, b) ==
  LET in_sum == SumKeepAxis0(W)
  IN  IF b # None THEN TAdd(in_sum, b) ELSE in_sum

\* out_synapses summing the axes in_synapses sums
out_synapses_b_KeepsAxis0(W, b) == SumKeepAxis0(W)

\* out_synapses(W, b): b is not used
out_synapses_b(W, b) == SumKeepAxis1(W)

\* out_synapses(W), b left at its default None
out_synapses(W) == out_synapses_b(W, None)

\* ------------------------------------------------------------------ MODELS
\* The head of each architecture's ordered (raw name, pretty name) list.
Vgg16Convs ==
  << <<"features.0", "conv1">>, <<"features.2", "conv2">>,
     <<"features.5", "conv3">>, <<"features.7", "conv4">>,
     <<"features.10", "conv5">> >>

Vgg16BnLayers ==
  << <<"features.0", "conv1">>, <<"features.1", "bn1">>,
     <<"features.3", "conv2">>, <<"features.4", "bn2">>,
     <<"features.7", "conv3">>, <<"features.8", "bn3">>,
     <<"features.10", "conv4">>, <<"features.11", "bn4">> >>

MODELS ==
  [m \in {"fc", "vgg16", "vgg16-bn"} |->
     CASE m = "fc" -> << <<"1", "fc1">>, <<"3", "fc2">> >>
       [] m = "vgg16" ->
            SubSeq(Vgg16Convs, 1, MaxConv) \o << <<"classifier.0", "fc1">> >>
       [] m = "vgg16-bn" ->
            SubSeq(Vgg16BnLayers, 1, 2 * (MaxConv - 1))
              \o << <<"classifier.0", "fc1">> >>]

\* MODELS[model].keys(), MODELS[model].values()
RawNames(model) == [j \in DOMAIN MODELS[model] |-> MODELS[model][j][1]]
get_layers(model) == [j \in DOMAIN MODELS[model] |-> MODELS[model][j][2]]

ConvNames == {"conv1", "conv2", "conv3", "conv4", "conv5"}
BnNames == {"bn1", "bn2", "bn3", "bn4"}
\* "conv" in layer
IsConv(layer) == layer \in ConvNames

\* [layer for layer in utils.get_layers(model) if "conv" in layer]
ConvChain(model) == SelectSeq(get_layers(model), IsConv)

\* ------------------------------------------------------------ the snapshots
feats_dir == "feats"
\* str(step)
Str(step) == ToString(step)
\* f"{feats_dir}/step{step}.h5"
FeatsPath(dir, step) == dir \o "/step" \o step \o ".h5"
\* f"step_{step}"
StepLabel(step) == "step_" \o step
\* f"{name}.{suffix}"
KeyName(name, suffix) == name \o "." \o suffix

ParamSuffixes == <<"weight", "bias">>
BufferSuffixes(variant) ==
  IF variant = "plain"
  THEN <<"weight.integral_buffer", "bias.integral_buffer">>
  ELSE <<"weight.integral_buffer_1", "bias.integral_buffer_1",
         "weight.integral_buffer_2", "bias.integral_buffer_2">>

IsBias(suffix) ==
  suffix \in {"bias", "bias.integral_buffer", "bias.integral_buffer_1",
              "bias.integral_buffer_2"}

\* channel counts along the conv chain: 1 input channel, then 2, 1, 2, ...
Ch(k) == IF k % 2 = 1 THEN 2 ELSE 1
LayerNo ==
  [l \in ConvNames \cup BnNames \cup {"fc1", "fc2"} |->
     CASE l \in {"conv1", "bn1", "fc1"} -> 1
       [] l \in {"conv2", "bn2", "fc2"} -> 2
       [] l \in {"conv3", "bn3"} -> 3
       [] l \in {"conv4", "bn4"} -> 4
       [] OTHER -> 5]

\* the shape the training process logs for a layer's tensor
ShapeOf(layer, suffix) ==
  LET k == LayerNo[layer]
  IN  IF layer \in ConvNames
      THEN (IF IsBias(suffix) THEN <<Ch(k)>>
            ELSE <<Ch(k), Ch(k - 1), 1, IF k = 2 THEN 2 ELSE 1>>)
      ELSE IF layer \in BnNames THEN <<Ch(k)>>
      ELSE (IF IsBias(suffix) THEN <<1>> ELSE <<1, 2>>)

\* a logged parameter value / a logged integral buffer value
ParamElem(seed, step, pos, sn, j) ==
  Num((((seed + 1) * j + step * pos + sn + pos) % 4) - 1)
BufferElem(seed, step, pos, sn, j) ==
  Num(((seed + 1) * j + step + 2 * sn + pos) % 3)

NoFault == [kind |-> "none", step |-> 0, group |-> "", key |-> "", val |-> Zero]

\* one group of one snapshot: key -> tensor
GroupOf(model, seed, step, group, suffixes, fault) ==
  LET raw == RawNames(model)
      lay == get_layers(model)
      keys == {KeyName(raw[p], suffixes[sn]) :
                 p \in DOMAIN raw, sn \in DOMAIN suffixes}
      hit(k) == fault.step = step /\ fault.group = group /\ fault.key = k
      kept == {k \in keys : ~(fault.kind = "nokey" /\ hit(k))}
      tensorAt(p, sn) ==
        LET sh == ShapeOf(lay[p], suffixes[sn])
            k == KeyName(raw[p], suffixes[sn])
        IN  Tensor(sh,
              [j \in 1..Prod(sh) |->
                 IF fault.kind = "nonfinite" /\ hit(k) /\ j = 1 THEN fault.val
                 ELSE IF group = "params"
                      THEN ParamElem(seed, step, p, sn, j)
                      ELSE BufferElem(seed, step, p, sn, j)])
  IN  [k \in kept |->
         LET ps == CHOOSE ps \in (DOMAIN raw) \X (DOMAIN suffixes) :
                     KeyName(raw[ps[1]], suffixes[ps[2]]) = k
         IN  tensorAt(ps[1], ps[2])]

\* the feature store: path -> group -> key -> tensor.  The snapshot of step 0
\* holds a buffers group only when buf0 is set.
MakeFiles(model, variant, seed, buf0, fault) ==
  LET present == {s \in 0..MaxStep : ~(fault.kind = "nofile" /\ fault.step = s)}
      pathOf(s) == FeatsPath(feats_dir, Str(s))
      stepOf(p) == CHOOSE s \in present : pathOf(s) = p
      groups(s) == IF s = 0 /\ ~buf0 THEN {"params"} ELSE {"params", "buffers"}
  IN  [p \in {pathOf(s) : s \in present} |->
         [g \in groups(stepOf(p)) |->
            GroupOf(model, seed, stepOf(p), g,
                    IF g = "params" THEN ParamSuffixes
                    ELSE BufferSuffixes(variant), fault)]]

\* --------------------------------------------------------- the feature reader
\* An operation's outcome: err = "" when it returns; the Python exception
\* otherwise.  get_features' failed isfile assertion is the missing-file error,
\* the KeyError of a missing group or key the missing-key error.
MissingFile == "AssertionError: not a file"
MissingKey == "KeyError"
NameError == "NameError: name 'pth' is not defined"
IndexError == "IndexError"

\* get_features(feats_path, group, keys, out_keys): opened and closed count the
\* h5py.File handles the call opens and the with-statement closes.
get_features_leaky(fs, feats_path, group, keys, out_keys) ==
  IF feats_path \notin DOMAIN fs
  THEN [err |-> MissingFile, out |-> <<>>, opened |-> 0, closed |-> 0]
  ELSE IF Len(keys) # Len(out_keys)
  THEN [err |-> "AssertionError: keys", out |-> <<>>, opened |-> 0, closed |-> 0]
  ELSE IF group \notin DOMAIN fs[feats_path]
          \/ \E j \in DOMAIN keys : keys[j] \notin DOMAIN fs[feats_path][group]
  THEN [err |-> MissingKey, out |-> <<>>, opened |-> 1, closed |-> 0]
  ELSE [err |-> "",
        out |-> [k \in {out_keys[j] : j \in DOMAIN out_keys} |->
                   LET j == CHOOSE j \in DOMAIN out_keys :
                              out_keys[j] = k
                                /\ \A j2 \in DOMAIN out_keys :
                                     out_keys[j2] = k => j2 <= j
                   IN  fs[feats_path][group][keys[j]]],
        opened |-> 1, closed |-> 1]

get_features(fs, feats_path, group, keys, out_keys) ==
  IF feats_path \notin DOMAIN fs
  THEN [err |-> MissingFile, out |-> <<>>, opened |-> 0, closed |-> 0]
  ELSE IF Len(keys) # Len(out_keys)
  THEN [err |-> "AssertionError: keys", out |-> <<>>, opened |-> 0, closed |-> 0]
  ELSE IF group \notin DOMAIN fs[feats_path]
          \/ \E j \in DOMAIN keys : keys[j] \notin DOMAIN fs[feats_path][group]
  THEN [err |-> MissingKey, out |-> <<>>, opened |-> 1, closed |-> 1]
  ELSE [err |-> "",
        out |-> [k \in {out_keys[j] : j \in DOMAIN out_keys} |->
                   LET j == CHOOSE j \in DOMAIN out_keys :
                              out_keys[j] = k
                                /\ \A j2 \in DOMAIN out_keys :
                                     out_keys[j2] = k => j2 <= j
                   IN  fs[feats_path][group][keys[j]]],
        opened |-> 1, closed |-> 1]

\* feats = {layer: {} for layer in layers}
EmptyFeats(model) ==
  [l \in {get_layers(model)[j] : j \in DOMAIN get_layers(model)} |-> <<>>]

Ok(feats, opened, closed) ==
  [err |-> "", feats |-> feats, opened |-> opened, closed |-> closed]
Raise(err, opened, closed) ==
  [err |-> err, feats |-> <<>>, opened |-> opened, closed |-> closed]

\* load_features of visualizations/utils.py.  Line 191 tests
\* os.path.isfile(pth); no name pth is bound in the function or the module, so
\* the first iteration of the loop raises NameError.
load_features(fs, steps, dir, model, suffix, group) ==
  IF steps = <<>> THEN Ok(EmptyFeats(model), 0, 0)
  ELSE Raise(NameError, 0, 0)

\* The reader rescale.py calls (utils is metrics.helper): every requested step
\* is read with get_features, whose failure is the failure of the call.
RECURSIVE helper_load_loop(_, _, _, _, _, _, _)
helper_load_loop(fs, steps, dir, model, suffix, group, acc) ==
  IF steps = <<>> THEN acc
  ELSE
    LET step == Head(steps)
        names == [j \in DOMAIN RawNames(model) |->
                    KeyName(RawNames(model)[j], suffix)]
        r == get_features(fs, FeatsPath(dir, step), group, names,
                          get_layers(model))
        opened == acc.opened + r.opened
        closed == acc.closed + r.closed
    IN  IF r.err # "" THEN Raise(r.err, opened, closed)
        ELSE helper_load_loop(fs, Tail(steps), dir, model, suffix, group,
               Ok([l \in DOMAIN acc.feats |->
                     [lab \in DOMAIN acc.feats[l] \cup {StepLabel(step)} |->
                        IF lab = StepLabel(step) THEN r.out[l]
                        ELSE acc.feats[l][lab]]],
                  opened, closed))

helper_load_features(fs, steps, dir, model, suffix, group) ==
  helper_load_loop(fs, steps, dir, model, suffix, group,
                   Ok(EmptyFeats(model), 0, 0))

\* ------------------------------------------------------------- the inputs
Hyper(lr, wd, momentum, dampening) ==
  [lr |-> lr, wd |-> wd, momentum |-> momentum, dampening |-> dampening]

\* rescale: lr in {1, 2}, wd in {0, 1}
HyperPlain == {Hyper(Num(l), Num(w), Zero, Zero) : l \in {1, 2}, w \in {0, 1}}

\* rescale_momentum: over-damped (wd = 0, momentum < 1), critically damped
\* and under-damped choices on which gamma, omega and every argument of
\* np.exp, np.cos, np.sin are exact
HyperMomentum ==
  { Hyper(Num(1), Zero, Zero, Zero),
    Hyper(Num(2), Zero, Zero, <<1, 2>>),
    Hyper(Num(1), <<1, 4>>, Zero, Zero),
    Hyper(Num(1), Zero, One, Zero),
    Hyper(Num(1), <<1, 2>>, One, Zero) }

HyperOf(variant) == IF variant = "plain" THEN HyperPlain ELSE HyperMomentum

RECURSIVE SortedSeq(_)
SortedSeq(S) ==
  IF S = {} THEN <<>>
  ELSE LET m == CHOOSE m \in S : \A y \in S : m <= y
       IN  <<m>> \o SortedSeq(S \ {m})

\* the strictly increasing, non-empty step lists over 0..MaxStep
StepLists == {SortedSeq(S) : S \in (SUBSET (0..MaxStep)) \ {{}}}

Range(q) == {q[j] : j \in DOMAIN q}

KeysOf(model, suffixes) ==
  {KeyName(RawNames(model)[p], suffixes[sn]) :
     p \in DOMAIN RawNames(model), sn \in DOMAIN suffixes}

Fault(kind, step, group, key, val) ==
  [kind |-> kind, step |-> step, group |-> group, key |-> key, val |-> val]

Scenario(model, variant, hp, steps, seed, buf0, fault) ==
  [model |-> model, variant |-> variant, hp |-> hp, steps |-> steps,
   seed |-> seed, buf0 |-> buf0, fault |-> fault]

Variants == {"plain", "momentum"}
FirstHyper(variant) ==
  IF variant = "plain" THEN Hyper(Num(1), Num(1), Zero, Zero)
  ELSE Hyper(Num(1), <<1, 4>>, Zero, Zero)

\* complete stores: every architecture, hyperparameter choice, step list and
\* seed; the snapshot of step 0 with and without a buffers group
SoundScenarios ==
  {Scenario(m, v, hp, st, sd, b0, NoFault) :
     m \in DOMAIN MODELS, v \in Variants, hp \in HyperPlain \cup HyperMomentum,
     st \in StepLists, sd \in 0..MaxSeed, b0 \in BOOLEAN}

\* a snapshot file of a requested step is absent
NoFileScenarios ==
  {Scenario(m, v, FirstHyper(v), st, 0, TRUE, Fault("nofile", s, "", "", Zero)) :
     m \in DOMAIN MODELS, v \in Variants, st \in StepLists, s \in 0..MaxStep}

\* a tensor of a requested step is absent from its group
NoKeyScenarios ==
  UNION {
    {Scenario("vgg16-bn", v, FirstHyper(v), st, 0, TRUE,
              Fault("nokey", s, "params", k, Zero)) :
       k \in KeysOf("vgg16-bn", ParamSuffixes), s \in 0..MaxStep, st \in StepLists}
    \cup
    {Scenario("vgg16-bn", v, FirstHyper(v), st, 0, TRUE,
              Fault("nokey", s, "buffers", k, Zero)) :
       k \in KeysOf("vgg16-bn", BufferSuffixes(v)), s \in 0..MaxStep,
       st \in StepLists}
    : v \in Variants}

ConvKeys(model, suffixes) ==
  {KeyName(RawNames(model)[p], suffixes[sn]) :
     p \in {q \in DOMAIN RawNames(model) : IsConv(get_layers(model)[q])},
     sn \in DOMAIN suffixes}

\* the first element of a conv layer's integral buffer is NaN or +inf at a
\* step after the first of the list
NonFiniteScenarios ==
  UNION {
    {Scenario("vgg16", v, hp, st, 0, TRUE, Fault("nonfinite", s, "buffers", k, x)) :
       k \in ConvKeys("vgg16", BufferSuffixes(v)), s \in 1..MaxStep,
       st \in {q \in StepLists : Len(q) >= 2}, x \in {NaN, PInf},
       hp \in IF v = "plain" THEN {FirstHyper(v)} ELSE HyperMomentum}
    : v \in Variants}

Scenarios ==
  {sc \in SoundScenarios \cup NoFileScenarios \cup NoKeyScenarios
            \cup NonFiniteScenarios :
     /\ sc.hp \in HyperOf(sc.variant)
     /\ sc.fault.kind # "none" => sc.fault.step \in Range(sc.steps)
     /\ sc.fault.kind = "nonfinite" => sc.fault.step # sc.steps[1]
     /\ ~sc.buf0 => 0 \in Range(sc.steps)}

\* ---------------------------------------------------------------- the state
VARIABLES
  sc,           \* the call: model, variant, hp, steps, and the store's make-up
  files,        \* the feature store the training process left on disk
  pc,           \* where the orchestrator stands
  i,            \* the loop index of rescale / rescale_momentum
  group,        \* load_kwargs["group"]
  layers,       \* the conv-filtered chain
  gamma, omega, \* rescale_momentum's derived constants
  W_0, b_0,     \* the first step's params
  bufs,         \* the buffer mappings the solver loaded for this step
  feats,        \* compute_empirical's weights and biases
  li,           \* position in layers of the layer being written
  W_in, b_in,   \* the carry of the loop over layers[1:]
  g_in,         \* the momentum solver's carry (g_W_in_1, g_b_in_1, g_W_in_2, g_b_in_2)
  theoretical, empirical,
  loads,        \* every load_features call so far, in order
  handles,      \* open h5py.File handles
  err,          \* the exception that ended the run, "" if none
  result,       \* the returned record, <<>> before the return
  req, resp,    \* a direct call of a function of visualizations/utils.py and its outcome
  first,        \* the record an earlier call on the same arguments returned, <<>> if none
  log           \* what the run has written to its output

vars == <<sc, files, pc, i, group, layers, gamma, omega, W_0, b_0, bufs, feats, li,
          W_in, b_in, g_in, theoretical, empirical, loads, handles, err, result,
          req, resp, first, log>>

steps == sc.steps
lr == sc.hp.lr
wd == sc.hp.wd
momentum == sc.hp.momentum
dampening == sc.hp.dampening
\* steps[i], step_0 = steps[0] and their labels
step == steps[i + 1]
step_0 == steps[1]
Lab(s) == StepLabel(Str(s))

\* EmptyTrajectory over layers instead of layers[1:]
EmptyTrajectory_All(ls) == [l \in {ls[j] : j \in 1..Len(ls)} |-> <<>>]

\* {layer: {} for layer in layers[1:]}
EmptyTrajectory(ls) == [l \in {ls[j] : j \in 2..Len(ls)} |-> <<>>]

\* d[layer] = {step: v}: the layer's earlier entries are dropped
Put_Afresh(d, layer, s, v) == [d EXCEPT ![layer] = [k \in {s} |-> v]]

\* d[layer][step] = v
Put(d, layer, s, v) ==
  [d EXCEPT ![layer] =
     [k \in DOMAIN d[layer] \cup {s} |-> IF k = s THEN v ELSE d[layer][k]]]

\* load_features calls made one after the other with the same steps and group:
\* the first failure ends them.  feats holds one mapping per call that returned.
RECURSIVE LoadAll(_, _, _, _, _)
LoadAll(stepStr, grp, suffixes, acc, by) ==
  IF suffixes = <<>> \/ acc.err # "" THEN acc
  ELSE
    LET r == helper_load_features(files, <<stepStr>>, feats_dir, sc.model,
                                  Head(suffixes), grp)
    IN  LoadAll(stepStr, grp, Tail(suffixes),
          [err |-> r.err,
           feats |-> IF r.err = "" THEN Append(acc.feats, r.feats) ELSE acc.feats,
           opened |-> acc.opened + r.opened,
           closed |-> acc.closed + r.closed,
           log |-> Append(acc.log,
                     [step |-> stepStr, group |-> grp, suffix |-> Head(suffixes),
                      by |-> by, i |-> i])],
          by)

Load(stepStr, grp, suffixes, by) ==
  LoadAll(stepStr, grp, suffixes,
          [err |-> "", feats |-> <<>>, opened |-> 0, closed |-> 0, log |-> <<>>],
          by)

NoTensor == None

\* the state at the call of rescale / rescale_momentum on a scenario of S
Start(S) ==
  /\ sc \in S
  /\ files = MakeFiles(sc.model, sc.variant, sc.seed, sc.buf0, sc.fault)
  /\ pc = "start"
  /\ i = 0
  /\ group = ""
  /\ layers = <<>>
  /\ gamma = Zero
  /\ omega = Zero
  /\ W_0 = <<>>
  /\ b_0 = <<>>
  /\ bufs = <<>>
  /\ feats = <<>>
  /\ li = 0
  /\ W_in = NoTensor
  /\ b_in = NoTensor
  /\ g_in = <<>>
  /\ theoretical = <<>>
  /\ empirical = <<>>
  /\ loads = <<>>
  /\ handles = 0
  /\ err = ""
  /\ result = <<>>
  /\ req = <<>>
  /\ resp = <<>>
  /\ first = <<>>
  /\ log = <<>>

Init == Start(Scenarios)

\* an exception leaves the orchestrator: nothing is returned
Fail(e) ==
  /\ pc' = "failed"
  /\ err' = e

\* rescale_momentum, lines 235-237
Denom == XMul(XMul(lr, XSub(One, dampening)), XAdd(One, momentum))
Gamma == XDiv(XSub(One, momentum), Denom)
Omega == Sqrt(XDiv(XMul(Num(4), wd), Denom))

\* Begin with the trajectories of an earlier call taken up again instead of
\* the fresh dicts of lines 211-212
Begin_ReusesTrajectories ==
  /\ pc = "start"
  /\ LET r == Load(Str(steps[1]), "params", ParamSuffixes, "rescale")
     IN  /\ loads' = loads \o r.log
         /\ handles' = handles + r.opened - r.closed
         /\ layers' = ConvChain(sc.model)
         /\ gamma' = IF sc.variant = "momentum" THEN Gamma ELSE gamma
         /\ omega' = IF sc.variant = "momentum" THEN Omega ELSE omega
         /\ IF r.err # ""
            THEN /\ Fail(r.err)
                 /\ UNCHANGED <<W_0, b_0, theoretical, empirical>>
            ELSE /\ W_0' = r.feats[1]
                 /\ b_0' = r.feats[2]
                 /\ theoretical' = IF first # <<>> THEN first.theoretical
                                   ELSE EmptyTrajectory(ConvChain(sc.model))
                 /\ empirical' = IF first # <<>> THEN first.empirical
                                 ELSE EmptyTrajectory(ConvChain(sc.model))
                 /\ pc' = "theory"
                 /\ err' = err
  /\ UNCHANGED <<sc, files, first, log, req, resp, i, group, bufs, feats, li, W_in, b_in,
                 g_in, result>>

\* rescale, lines 180-212, and rescale_momentum, lines 225-272: the chain, the
\* first step's weights and biases, the empty trajectories
Begin ==
  /\ pc = "start"
  /\ LET r == Load(Str(steps[1]), "params", ParamSuffixes, "rescale")
     IN  /\ loads' = loads \o r.log
         /\ handles' = handles + r.opened - r.closed
         /\ layers' = ConvChain(sc.model)
         /\ gamma' = IF sc.variant = "momentum" THEN Gamma ELSE gamma
         /\ omega' = IF sc.variant = "momentum" THEN Omega ELSE omega
         /\ IF r.err # ""
            THEN /\ Fail(r.err)
                 /\ UNCHANGED <<W_0, b_0, theoretical, empirical>>
            ELSE /\ W_0' = r.feats[1]
                 /\ b_0' = r.feats[2]
                 /\ theoretical' = EmptyTrajectory(ConvChain(sc.model))
                 /\ empirical' = EmptyTrajectory(ConvChain(sc.model))
                 /\ pc' = "theory"
                 /\ err' = err
  /\ UNCHANGED <<sc, files, first, log, req, resp, i, group, bufs, feats, li, W_in, b_in,
                 g_in, result>>

\* t = lr * i: the position in the list in place of the step
t_plain_ByIndex == XMul(lr, Num(i))

\* compute_theoretical, line 24
t_plain == XMul(lr, Num(step))
\* np.exp(-2 * wd * t)
Decay == Exp(XMul(XMul(Num(-2), wd), t_plain))

\* Quantity with the buffer scaled by lr in place of lr ** 2
Quantity_LinearLr(init, buffers, layer) ==
  LET q == TScale(Decay, TSq(init[layer][Lab(step_0)]))
  IN  IF i > 0
      THEN TAdd(q, TScale(XMul(lr, Decay), buffers[layer][Lab(step)]))
      ELSE q

\* compute_theoretical, lines 33-39 and 41-47: the decayed initial condition of
\* one layer, with the buffer correction when i > 0
Quantity(init, buffers, layer) ==
  LET q == TScale(Decay, TSq(init[layer][Lab(step_0)]))
  IN  IF i > 0
      THEN TAdd(q, TScale(XMul(XMul(lr, lr), Decay), buffers[layer][Lab(step)]))
      ELSE q

\* TheoryBegin with load_kwargs["group"] left at "params"
TheoryBegin_ReadsParams ==
  /\ pc = "theory"
  /\ sc.variant = "plain"
  /\ i < Len(steps)
  /\ group' = "params"
  /\ LET r == IF i > 0
              THEN Load(Str(step), "params", BufferSuffixes("plain"), "theory")
              ELSE Load(Str(step), "buffers", <<>>, "theory")
     IN  /\ loads' = loads \o r.log
         /\ handles' = handles + r.opened - r.closed
         /\ IF r.err # ""
            THEN /\ Fail(r.err)
                 /\ UNCHANGED <<bufs, W_in, b_in, li>>
            ELSE IF layers = <<>>
            THEN /\ Fail(IndexError)
                 /\ bufs' = r.feats
                 /\ UNCHANGED <<W_in, b_in, li>>
            ELSE /\ bufs' = r.feats
                 /\ W_in' = Quantity(W_0, IF i > 0 THEN r.feats[1] ELSE <<>>, layers[1])
                 /\ b_in' = Quantity(b_0, IF i > 0 THEN r.feats[2] ELSE <<>>, layers[1])
                 /\ li' = 2
                 /\ pc' = IF Len(layers) >= 2 THEN "theory_layer" ELSE "empirical"
                 /\ err' = err
  /\ UNCHANGED <<sc, files, first, log, req, resp, i, layers, gamma, omega, W_0, b_0,
                 feats, g_in,
                 theoretical, empirical, result>>

\* rescale, lines 213-217, and compute_theoretical, lines 24-39
TheoryBegin ==
  /\ pc = "theory"
  /\ sc.variant = "plain"
  /\ i < Len(steps)
  /\ group' = "buffers"
  /\ LET r == IF i > 0
              THEN Load(Str(step), "buffers", BufferSuffixes("plain"), "theory")
              ELSE Load(Str(step), "buffers", <<>>, "theory")
     IN  /\ loads' = loads \o r.log
         /\ handles' = handles + r.opened - r.closed
         /\ IF r.err # ""
            THEN /\ Fail(r.err)
                 /\ UNCHANGED <<bufs, W_in, b_in, li>>
            ELSE IF layers = <<>>
            THEN /\ Fail(IndexError)
                 /\ bufs' = r.feats
                 /\ UNCHANGED <<W_in, b_in, li>>
            ELSE /\ bufs' = r.feats
                 /\ W_in' = Quantity(W_0, IF i > 0 THEN r.feats[1] ELSE <<>>, layers[1])
                 /\ b_in' = Quantity(b_0, IF i > 0 THEN r.feats[2] ELSE <<>>, layers[1])
                 /\ li' = 2
                 /\ pc' = IF Len(layers) >= 2 THEN "theory_layer" ELSE "empirical"
                 /\ err' = err
  /\ UNCHANGED <<sc, files, first, log, req, resp, i, layers, gamma, omega, W_0, b_0,
                 feats, g_in,
                 theoretical, empirical, result>>

\* compute_theoretical, lines 40-52: one pass of the loop over layers[1:]
TheoryLayer ==
  /\ pc = "theory_layer"
  /\ sc.variant = "plain"
  /\ LET layer == layers[li]
         W_out == Quantity(W_0, IF i > 0 THEN bufs[1] ELSE <<>>, layer)
         b_out == Quantity(b_0, IF i > 0 THEN bufs[2] ELSE <<>>, layer)
     IN  /\ theoretical' = Put(theoretical, layer, step,
                               TSub(out_synapses(W_out), in_synapses(W_in, b_in)))
         /\ W_in' = W_out
         /\ b_in' = b_out
  /\ li' = li + 1
  /\ pc' = IF li < Len(layers) THEN "theory_layer" ELSE "empirical"
  /\ UNCHANGED <<sc, files, first, log, req, resp, i, group, layers, gamma, omega, W_0,
                 b_0, bufs, feats, g_in,
                 empirical, loads, handles, err, result>>

\* compute_theoretical_momentum, line 71
t_momentum == XMul(XMul(lr, XSub(One, dampening)), Num(step))

\* HomogeneousScale with the two terms of numer added, not subtracted
HomogeneousScale_SignSlip(g, w, t) ==
  IF XLt(g, w)
  THEN LET sqrt == Sqrt(XSub(XMul(w, w), XMul(g, g)))
           cos == Cos(XMul(sqrt, t))
           sin == Sin(XMul(sqrt, t))
       IN  XMul(Exp(XMul(XNeg(g), t)), XAdd(cos, XMul(XDiv(g, sqrt), sin)))
  ELSE IF g = w
  THEN XMul(Exp(XMul(XNeg(g), t)), XAdd(One, XMul(g, t)))
  ELSE LET sqrt == Sqrt(XSub(XMul(g, g), XMul(w, w)))
           alpha_p == XAdd(XNeg(g), sqrt)
           alpha_m == XSub(XNeg(g), sqrt)
           numer == XAdd(XMul(alpha_p, Exp(XMul(alpha_m, t))),
                         XMul(alpha_m, Exp(XMul(alpha_p, t))))
           denom == XSub(alpha_p, alpha_m)
       IN  XDiv(numer, denom)

\* compute_theoretical_momentum, lines 99-112: the homogeneous scale
HomogeneousScale(g, w, t) ==
  IF XLt(g, w)
  THEN LET sqrt == Sqrt(XSub(XMul(w, w), XMul(g, g)))
           cos == Cos(XMul(sqrt, t))
           sin == Sin(XMul(sqrt, t))
       IN  XMul(Exp(XMul(XNeg(g), t)), XAdd(cos, XMul(XDiv(g, sqrt), sin)))
  ELSE IF g = w
  THEN XMul(Exp(XMul(XNeg(g), t)), XAdd(One, XMul(g, t)))
  ELSE LET sqrt == Sqrt(XSub(XMul(g, g), XMul(w, w)))
           alpha_p == XAdd(XNeg(g), sqrt)
           alpha_m == XSub(XNeg(g), sqrt)
           numer == XSub(XMul(alpha_p, Exp(XMul(alpha_m, t))),
                         XMul(alpha_m, Exp(XMul(alpha_p, t))))
           denom == XSub(alpha_p, alpha_m)
       IN  XDiv(numer, denom)

\* compute_theoretical_momentum, lines 128-142: <<scale_1, scale_2>>
InhomogeneousScales(g, w, t) ==
  IF XLt(g, w)
  THEN LET sqrt == Sqrt(XSub(XMul(w, w), XMul(g, g)))
       IN  << XDiv(XMul(Exp(XMul(XNeg(g), t)), Sin(XMul(sqrt, t))), sqrt),
              XDiv(XMul(XNeg(Exp(XMul(XNeg(g), t))), Cos(XMul(sqrt, t))), sqrt) >>
  ELSE IF g = w
  THEN << XMul(Exp(XMul(XNeg(g), t)), t), XNeg(Exp(XMul(XNeg(g), t))) >>
  ELSE LET sqrt == Sqrt(XSub(XMul(g, g), XMul(w, w)))
           alpha_p == XAdd(XNeg(g), sqrt)
           alpha_m == XSub(XNeg(g), sqrt)
       IN  << XDiv(Exp(XMul(alpha_p, t)), XSub(alpha_p, alpha_m)),
              XDiv(XNeg(Exp(XMul(alpha_m, t))), XSub(alpha_p, alpha_m)) >>

\* compute_theoretical_momentum, line 144
CorrectionScale == XMul(XMul(lr, XSub(One, dampening)), Num(2))

\* TermFinite without the test of the in layer's bias buffer
TermFinite_NoBias(g_W_out, g_W_in, g_b_in) ==
  AllFinite(g_W_out) /\ AllFinite(g_W_in)

\* compute_theoretical_momentum, lines 146-150 and 159-163
TermFinite(g_W_out, g_W_in, g_b_in) ==
  AllFinite(g_W_out) /\ AllFinite(g_W_in) /\ AllFinite(g_b_in)

\* compute_theoretical_momentum, lines 151-158 and 164-171
CorrectionTerm(scale_j, g_W_out, g_W_in, g_b_in) ==
  TScale(XMul(CorrectionScale, scale_j),
         TSub(out_synapses(g_W_out), in_synapses(g_W_in, g_b_in)))

\* MomentumBegin with the buffers loaded at every index, i = 0 included
MomentumBegin_AlwaysLoads ==
  /\ pc = "theory"
  /\ sc.variant = "momentum"
  /\ i < Len(steps)
  /\ group' = "buffers"
  /\ LET r == Load(Str(step), "buffers", BufferSuffixes("momentum"), "theory")
     IN  /\ loads' = loads \o r.log
         /\ handles' = handles + r.opened - r.closed
         /\ IF r.err # ""
            THEN /\ Fail(r.err)
                 /\ UNCHANGED <<bufs, W_in, b_in, g_in, li>>
            ELSE IF layers = <<>>
            THEN /\ Fail(IndexError)
                 /\ bufs' = r.feats
                 /\ UNCHANGED <<W_in, b_in, g_in, li>>
            ELSE /\ bufs' = r.feats
                 /\ W_in' = TSq(W_0[layers[1]][Lab(step_0)])
                 /\ b_in' = TSq(b_0[layers[1]][Lab(step_0)])
                 /\ g_in' = [j \in 1..4 |-> r.feats[j][layers[1]][Lab(step)]]
                 /\ li' = 2
                 /\ pc' = IF Len(layers) >= 2 THEN "momentum_layer" ELSE "empirical"
                 /\ err' = err
  /\ UNCHANGED <<sc, files, first, log, req, resp, i, layers, gamma, omega, W_0, b_0, feats,
                 theoretical, empirical, result>>

\* rescale_momentum, lines 273-279, and compute_theoretical_momentum, lines 71-92
MomentumBegin ==
  /\ pc = "theory"
  /\ sc.variant = "momentum"
  /\ i < Len(steps)
  /\ group' = "buffers"
  /\ LET r == IF i > 0
              THEN Load(Str(step), "buffers", BufferSuffixes("momentum"), "theory")
              ELSE Load(Str(step), "buffers", <<>>, "theory")
     IN  /\ loads' = loads \o r.log
         /\ handles' = handles + r.opened - r.closed
         /\ IF r.err # ""
            THEN /\ Fail(r.err)
                 /\ UNCHANGED <<bufs, W_in, b_in, g_in, li>>
            ELSE IF layers = <<>>
            THEN /\ Fail(IndexError)
                 /\ bufs' = r.feats
                 /\ UNCHANGED <<W_in, b_in, g_in, li>>
            ELSE /\ bufs' = r.feats
                 /\ W_in' = TSq(W_0[layers[1]][Lab(step_0)])
                 /\ b_in' = TSq(b_0[layers[1]][Lab(step_0)])
                 /\ g_in' = IF i > 0
                            THEN [j \in 1..4 |-> r.feats[j][layers[1]][Lab(step)]]
                            ELSE g_in
                 /\ li' = 2
                 /\ pc' = IF Len(layers) >= 2 THEN "momentum_layer" ELSE "empirical"
                 /\ err' = err
  /\ UNCHANGED <<sc, files, first, log, req, resp, i, layers, gamma, omega, W_0, b_0, feats,
                 theoretical, empirical, result>>

\* what follows the last statement of one pass of the loop over layers[1:]
NextLayer ==
  /\ li' = li + 1
  /\ pc' = IF li < Len(layers) THEN "momentum_layer" ELSE "empirical"

\* MomentumLayer without lines 118-119: W_in, b_in stay at the first layer
MomentumLayer_NoCarry ==
  /\ pc = "momentum_layer"
  /\ LET layer == layers[li]
         W_out == TSq(W_0[layer][Lab(step_0)])
         scale == HomogeneousScale(gamma, omega, t_momentum)
     IN  theoretical' = Put(theoretical, layer, step,
                            TScale(scale, TSub(out_synapses(W_out),
                                               in_synapses(W_in, b_in))))
  /\ IF i > 0
     THEN pc' = "correction_1" /\ li' = li
     ELSE NextLayer
  /\ UNCHANGED <<sc, files, first, log, req, resp, i, group, layers, gamma, omega, W_0,
                 b_0, bufs, feats, g_in, W_in, b_in, empirical, loads, handles, err,
                 result>>

\* compute_theoretical_momentum, lines 94-119: the homogeneous solution
MomentumLayer ==
  /\ pc = "momentum_layer"
  /\ LET layer == layers[li]
         W_out == TSq(W_0[layer][Lab(step_0)])
         b_out == TSq(b_0[layer][Lab(step_0)])
         scale == HomogeneousScale(gamma, omega, t_momentum)
     IN  /\ theoretical' = Put(theoretical, layer, step,
                               TScale(scale, TSub(out_synapses(W_out),
                                                  in_synapses(W_in, b_in))))
         /\ W_in' = W_out
         /\ b_in' = b_out
  /\ IF i > 0
     THEN pc' = "correction_1" /\ li' = li
     ELSE NextLayer
  /\ UNCHANGED <<sc, files, first, log, req, resp, i, group, layers, gamma, omega, W_0,
                 b_0, bufs, feats, g_in,
                 empirical, loads, handles, err, result>>

\* theoretical[layer][step] += term
AddTo(d, layer, s, term) == Put(d, layer, s, TAdd(d[layer][s], term))

\* Correction1 without the guard of lines 146-150
Correction1_Unguarded ==
  /\ pc = "correction_1"
  /\ LET layer == layers[li]
         g_W_out_1 == bufs[1][layer][Lab(step)]
         scale_1 == InhomogeneousScales(gamma, omega, t_momentum)[1]
     IN  theoretical' =
           AddTo(theoretical, layer, step,
                 CorrectionTerm(scale_1, g_W_out_1, g_in[1], g_in[2]))
  /\ pc' = "correction_2"
  /\ UNCHANGED <<sc, files, first, log, req, resp, i, group, layers, gamma, omega, W_0, b_0,
                 bufs, feats, li, W_in, b_in, g_in, empirical, loads, handles,
                 err, result>>

\* compute_theoretical_momentum, lines 121-158: the first correction term
Correction1 ==
  /\ pc = "correction_1"
  /\ LET layer == layers[li]
         g_W_out_1 == bufs[1][layer][Lab(step)]
         scale_1 == InhomogeneousScales(gamma, omega, t_momentum)[1]
     IN  theoretical' =
           IF TermFinite(g_W_out_1, g_in[1], g_in[2])
           THEN AddTo(theoretical, layer, step,
                      CorrectionTerm(scale_1, g_W_out_1, g_in[1], g_in[2]))
           ELSE theoretical
  /\ pc' = "correction_2"
  /\ UNCHANGED <<sc, files, first, log, req, resp, i, group, layers, gamma, omega, W_0,
                 b_0, bufs, feats, li,
                 W_in, b_in, g_in, empirical, loads, handles, err, result>>

\* compute_theoretical_momentum, lines 159-176: the second correction term,
\* then the buffers of this layer become the in-side buffers of the next
Correction2 ==
  /\ pc = "correction_2"
  /\ LET layer == layers[li]
         g_W_out_2 == bufs[3][layer][Lab(step)]
         scale_2 == InhomogeneousScales(gamma, omega, t_momentum)[2]
     IN  /\ theoretical' =
              IF TermFinite(g_W_out_2, g_in[3], g_in[4])
              THEN AddTo(theoretical, layer, step,
                         CorrectionTerm(scale_2, g_W_out_2, g_in[3], g_in[4]))
              ELSE theoretical
         /\ g_in' = [j \in 1..4 |-> bufs[j][layer][Lab(step)]]
  /\ NextLayer
  /\ UNCHANGED <<sc, files, first, log, req, resp, i, group, layers, gamma, omega, W_0,
                 b_0, bufs, feats,
                 W_in, b_in, empirical, loads, handles, err, result>>

\* EmpiricalBegin with the failure of the load caught and the step passed over
EmpiricalBegin_SkipsStep ==
  /\ pc = "empirical"
  /\ group' = "params"
  /\ LET r == Load(Str(step), "params", ParamSuffixes, "empirical")
     IN  /\ loads' = loads \o r.log
         /\ handles' = handles + r.opened - r.closed
         /\ IF r.err # ""
            THEN /\ pc' = "theory"
                 /\ i' = i + 1
                 /\ UNCHANGED <<feats, W_in, b_in, li>>
            ELSE /\ feats' = r.feats
                 /\ W_in' = TSq(r.feats[1][layers[1]][Lab(step)])
                 /\ b_in' = TSq(r.feats[2][layers[1]][Lab(step)])
                 /\ li' = 2
                 /\ IF Len(layers) >= 2
                    THEN pc' = "empirical_layer" /\ i' = i
                    ELSE pc' = "theory" /\ i' = i + 1
         /\ err' = err
  /\ UNCHANGED <<sc, files, first, log, req, resp, layers, gamma, omega, W_0, b_0, bufs, g_in,
                 theoretical, empirical, result>>

\* rescale, lines 218-219, and compute_empirical, lines 7-10
EmpiricalBegin ==
  /\ pc = "empirical"
  /\ group' = "params"
  /\ LET r == Load(Str(step), "params", ParamSuffixes, "empirical")
     IN  /\ loads' = loads \o r.log
         /\ handles' = handles + r.opened - r.closed
         /\ IF r.err # ""
            THEN /\ Fail(r.err)
                 /\ UNCHANGED <<feats, W_in, b_in, li, i>>
            ELSE /\ feats' = r.feats
                 /\ W_in' = TSq(r.feats[1][layers[1]][Lab(step)])
                 /\ b_in' = TSq(r.feats[2][layers[1]][Lab(step)])
                 /\ li' = 2
                 /\ IF Len(layers) >= 2
                    THEN pc' = "empirical_layer" /\ i' = i
                    ELSE pc' = "theory" /\ i' = i + 1
                 /\ err' = err
  /\ UNCHANGED <<sc, files, first, log, req, resp, layers, gamma, omega, W_0, b_0, bufs, g_in,
                 theoretical, empirical, result>>

\* EmpiricalLayer without lines 17-18: the carry is not advanced
EmpiricalLayer_NoCarry ==
  /\ pc = "empirical_layer"
  /\ LET layer == layers[li]
         W_out == TSq(feats[1][layer][Lab(step)])
     IN  empirical' = Put(empirical, layer, step,
                          TSub(out_synapses(W_out), in_synapses(W_in, b_in)))
  /\ li' = li + 1
  /\ IF li < Len(layers)
     THEN pc' = "empirical_layer" /\ i' = i
     ELSE pc' = "theory" /\ i' = i + 1
  /\ UNCHANGED <<sc, files, first, log, req, resp, group, layers, gamma, omega, W_0, b_0, bufs,
                 feats, g_in, W_in, b_in, theoretical, loads, handles, err, result>>

\* compute_empirical, lines 11-18: one pass of the loop over layers[1:]
EmpiricalLayer ==
  /\ pc = "empirical_layer"
  /\ LET layer == layers[li]
         W_out == TSq(feats[1][layer][Lab(step)])
         b_out == TSq(feats[2][layer][Lab(step)])
     IN  /\ empirical' = Put(empirical, layer, step,
                             TSub(out_synapses(W_out), in_synapses(W_in, b_in)))
         /\ W_in' = W_out
         /\ b_in' = b_out
  /\ li' = li + 1
  /\ IF li < Len(layers)
     THEN pc' = "empirical_layer" /\ i' = i
     ELSE pc' = "theory" /\ i' = i + 1
  /\ UNCHANGED <<sc, files, first, log, req, resp, group, layers, gamma, omega, W_0, b_0,
                 bufs, feats, g_in,
                 theoretical, loads, handles, err, result>>

\* rescale, line 221, and rescale_momentum, line 283
Return ==
  /\ pc = "theory"
  /\ i = Len(steps)
  /\ result' = [empirical |-> empirical, theoretical |-> theoretical]
  /\ pc' = "done"
  /\ UNCHANGED <<sc, files, first, log, req, resp, i, group, layers, gamma, omega, W_0,
                 b_0, bufs, feats, li,
                 W_in, b_in, g_in, theoretical, empirical, loads, handles, err>>

Next ==
  \/ Begin
  \/ TheoryBegin
  \/ TheoryLayer
  \/ MomentumBegin
  \/ MomentumLayer
  \/ Correction1
  \/ Correction2
  \/ EmpiricalBegin
  \/ EmpiricalLayer
  \/ Return

Spec == Init /\ [][Next]_vars

\* ---------------------------------------------- the same call, made again
\* rescale / rescale_momentum called a second time with the arguments and the
\* store of the call that has returned: the locals of the first call are gone,
\* the store, the open handles and the output are those the first call left
Rerun ==
  /\ pc = "done"
  /\ first = <<>>
  /\ first' = result
  /\ pc' = "start"
  /\ i' = 0
  /\ group' = ""
  /\ layers' = <<>>
  /\ gamma' = Zero
  /\ omega' = Zero
  /\ W_0' = <<>>
  /\ b_0' = <<>>
  /\ bufs' = <<>>
  /\ feats' = <<>>
  /\ li' = 0
  /\ W_in' = NoTensor
  /\ b_in' = NoTensor
  /\ g_in' = <<>>
  /\ theoretical' = <<>>
  /\ empirical' = <<>>
  /\ loads' = <<>>
  /\ result' = <<>>
  /\ UNCHANGED <<sc, files, log, req, resp, handles, err>>

NextTwice ==
  \/ Next
  \/ Rerun

SpecTwice == Init /\ [][NextTwice]_vars

\* ------------------------------------------- step lists in any order
\* the lists of distinct steps over 0..MaxStep, in every order
RECURSIVE Orderings(_)
Orderings(S) ==
  IF S = {} THEN {<<>>}
  ELSE UNION {{<<x>> \o q : q \in Orderings(S \ {x})} : x \in S}

StepOrders == UNION {Orderings(S) : S \in (SUBSET (0..MaxStep)) \ {{}}}

\* complete stores, read in any order of the steps
OrderScenarios ==
  UNION {{Scenario(m, v, hp, st, sd, TRUE, NoFault) :
            m \in DOMAIN MODELS, hp \in HyperOf(v), st \in StepOrders,
            sd \in 0..MaxSeed} : v \in Variants}

InitOrder == Start(OrderScenarios)

SpecOrder == InitOrder /\ [][Next]_vars

\* ------------------------------------------- a direct call of load_features
\* the requests of a caller of visualizations/utils.py: any list of steps,
\* in any order, of files that exist or not
StepRequests ==
  {<<>>} \cup {<<Str(a)>> : a \in 0..MaxStep}
         \cup {<<Str(a), Str(b)>> : a \in 0..MaxStep, b \in 0..MaxStep}

Requests(variant) ==
  {[steps |-> st, suffix |-> ParamSuffixes[n], group |-> "params"] :
     st \in StepRequests, n \in DOMAIN ParamSuffixes}
  \cup
  {[steps |-> st, suffix |-> BufferSuffixes(variant)[n], group |-> "buffers"] :
     st \in StepRequests, n \in DOMAIN BufferSuffixes(variant)}

ReaderScenarios ==
  {x \in Scenarios :
     /\ x.model = "vgg16-bn"
     /\ x.variant = "plain"
     /\ x.seed = 0
     /\ x.buf0
     /\ x.hp = FirstHyper("plain")
     /\ x.steps = <<0>>
     /\ x.fault.kind \in {"none", "nofile"}}
  \cup
  {Scenario("vgg16-bn", "plain", FirstHyper("plain"), <<0>>, 0, TRUE,
            Fault("nofile", s, "", "", Zero)) : s \in 0..MaxStep}

InitReader ==
  /\ sc \in ReaderScenarios
  /\ files = MakeFiles(sc.model, sc.variant, sc.seed, sc.buf0, sc.fault)
  /\ req \in Requests(sc.variant)
  /\ resp = <<>>
  /\ pc = "reader"
  /\ i = 0
  /\ group = ""
  /\ layers = <<>>
  /\ gamma = Zero
  /\ omega = Zero
  /\ W_0 = <<>>
  /\ b_0 = <<>>
  /\ bufs = <<>>
  /\ feats = <<>>
  /\ li = 0
  /\ W_in = NoTensor
  /\ b_in = NoTensor
  /\ g_in = <<>>
  /\ theoretical = <<>>
  /\ empirical = <<>>
  /\ loads = <<>>
  /\ handles = 0
  /\ err = ""
  /\ result = <<>>
  /\ first = <<>>
  /\ log = <<>>

\* load_features(steps, feats_dir, model, suffix, group) of visualizations/utils.py
ReaderCall ==
  /\ pc = "reader"
  /\ resp' = load_features(files, req.steps, feats_dir, sc.model, req.suffix,
                           req.group)
  /\ handles' = handles + resp'.opened - resp'.closed
  /\ pc' = "returned"
  /\ UNCHANGED <<sc, files, first, log, req, i, group, layers, gamma, omega, W_0, b_0, bufs,
                 feats, li, W_in, b_in, g_in, theoretical, empirical, loads, err,
                 result>>

NextReader == ReaderCall

SpecReader == InitReader /\ [][NextReader]_vars

\* --------------------------- direct calls of in_synapses and out_synapses
\* the shapes of the weights passed: rank 2 (out, in) and rank 4 (out, in, h, w)
SynShapes ==
  {<<2, 3>>, <<3, 1>>, <<2, 3, 1, 1>>, <<2, 1, 1, 2>>, <<1, 2, 2, 1>>}

\* tensors of a shape with entries -1 and 2, the first entry possibly
\* +inf or NaN
TensorsOf(shape) ==
  {Tensor(shape, [j \in 1..Prod(shape) |-> IF j = 1 /\ x # Zero THEN x ELSE d[j]]) :
     d \in [1..Prod(shape) -> {Num(-1), Num(2)}], x \in {Zero, PInf, NaN}}

\* the biases passed with a weight of n output channels: none, or a vector
BiasesOf(n) ==
  {None} \cup {Tensor(<<n>>, d) : d \in [1..n -> {Num(-1), Num(2)}]}

\* the scalars a tensor is scaled by
Scalars == {Zero, Num(-1), Num(2), <<1, 2>>, PInf}

SynapseRequests ==
  UNION {{[W |-> W, b |-> b, c |-> c] :
            W \in TensorsOf(sh), b \in BiasesOf(sh[1]), c \in Scalars} :
         sh \in SynShapes}

InitSynapses ==
  /\ sc \in {Scenario("fc", "plain", FirstHyper("plain"), <<0>>, 0, TRUE, NoFault)}
  /\ files = <<>>
  /\ req \in SynapseRequests
  /\ resp = <<>>
  /\ pc = "call"
  /\ i = 0
  /\ group = ""
  /\ layers = <<>>
  /\ gamma = Zero
  /\ omega = Zero
  /\ W_0 = <<>>
  /\ b_0 = <<>>
  /\ bufs = <<>>
  /\ feats = <<>>
  /\ li = 0
  /\ W_in = NoTensor
  /\ b_in = NoTensor
  /\ g_in = <<>>
  /\ theoretical = <<>>
  /\ empirical = <<>>
  /\ loads = <<>>
  /\ handles = 0
  /\ err = ""
  /\ result = <<>>
  /\ first = <<>>
  /\ log = <<>>

\* c * b, for a bias that is given
ScaleBias(c, b) == IF b = None THEN None ELSE TScale(c, b)

\* in_synapses and out_synapses called on W, b and on c * W, c * b
SynapsesCall ==
  /\ pc = "call"
  /\ resp' = [in_W |-> in_synapses(req.W, None),
              in_Wb |-> in_synapses(req.W, req.b),
              out_W |-> out_synapses(req.W),
              out_Wb |-> out_synapses_b(req.W, req.b),
              in_cW |-> in_synapses(TScale(req.c, req.W), None),
              in_cWcb |-> in_synapses(TScale(req.c, req.W), ScaleBias(req.c, req.b)),
              out_cW |-> out_synapses(TScale(req.c, req.W))]
  /\ pc' = "called"
  /\ UNCHANGED <<sc, files, first, log, req, i, group, layers, gamma, omega, W_0, b_0,
                 bufs, feats, li, W_in, b_in, g_in, theoretical, empirical, loads,
                 handles, err, result>>

NextSynapses == SynapsesCall

SpecSynapses == InitSynapses /\ [][NextSynapses]_vars

\* ------------------------------------------------- what the claims speak of
\* the raw name of a layer of the run's architecture
RawOf(layer) ==
  RawNames(sc.model)[CHOOSE p \in DOMAIN get_layers(sc.model) :
                       get_layers(sc.model)[p] = layer]

\* the tensor the snapshot of step s holds for a layer and a suffix
Stored(s, grp, layer, suffix) ==
  files[FeatsPath(feats_dir, Str(s))][grp][KeyName(RawOf(layer), suffix)]

\* the position of step s in the step list, counted from 0
IndexOf(s) == (CHOOSE j \in DOMAIN steps : steps[j] = s) - 1

\* the adjacent pairs (chain[k], chain[k+1]), by k
Pairs == 1..(Len(layers) - 1)

\* the trajectory d holds an entry for every pair and every step whose pass is over
Complete(d, n) ==
  \A k \in Pairs : \A j \in 1..n :
     layers[k + 1] \in DOMAIN d /\ steps[j] \in DOMAIN d[layers[k + 1]]

\* the steps whose theoretical pass is over
TheoryDone ==
  IF pc \in {"empirical", "empirical_layer"} THEN i + 1
  ELSE IF pc \in {"theory", "done"} THEN i
  ELSE IF pc = "failed" /\ group = "params" THEN i + 1
  ELSE i

\* C1: compute_empirical stores, for every step and every adjacent pair
\* (chain[k], chain[k+1]), under chain[k+1] and that step, the value
\* out_synapses(W[k+1]^2) - in_synapses(W[k]^2, b[k]^2) of that step's params
\* tensors; an entry exists for every step whose pass is over; nothing is
\* stored under chain[0].
EmpiricalValue(k, s) ==
  TSub(out_synapses(TSq(Stored(s, "params", layers[k + 1], "weight"))),
       in_synapses(TSq(Stored(s, "params", layers[k], "weight")),
                   TSq(Stored(s, "params", layers[k], "bias"))))

C1_EmpiricalStored ==
  /\ \A l \in DOMAIN empirical : \A s \in DOMAIN empirical[l] :
        \E k \in Pairs : layers[k + 1] = l /\ empirical[l][s] = EmpiricalValue(k, s)
  /\ empirical # <<>> => Complete(empirical, i)
  /\ layers # <<>> => layers[1] \notin DOMAIN empirical

C1_Witness ==
  /\ pc = "done"
  /\ Len(layers) = 3
  /\ Len(steps) >= 2
  /\ \A k \in Pairs : DOMAIN empirical[layers[k + 1]] = Range(steps)

\* C2: in the no-momentum solver, with d = exp(-2*wd*lr*step), every layer's
\* quantity is d*Q0^2 at step index 0 and d*Q0^2 + lr^2*d*G at a later index
\* (Q0 the first listed step's tensor, G the current step's integral buffer),
\* and the value stored for chain[k+1] is
\* out_synapses(Q_W[k+1]) - in_synapses(Q_W[k], Q_b[k]).
DecayAt(s) == Exp(XMul(Num(-2 * s), XMul(wd, lr)))

QuantityAt(layer, s, base) ==
  LET q0 == TScale(DecayAt(s), TSq(Stored(steps[1], "params", layer, base)))
      G == Stored(s, "buffers", layer, base \o ".integral_buffer")
  IN  IF IndexOf(s) = 0 THEN q0
      ELSE TAdd(q0, TScale(XMul(XMul(lr, lr), DecayAt(s)), G))

C2_PlainSolver ==
  sc.variant = "plain" =>
    /\ \A l \in DOMAIN theoretical : \A s \in DOMAIN theoretical[l] :
          \E k \in Pairs :
             /\ layers[k + 1] = l
             /\ theoretical[l][s] =
                  TSub(out_synapses(QuantityAt(l, s, "weight")),
                       in_synapses(QuantityAt(layers[k], s, "weight"),
                                   QuantityAt(layers[k], s, "bias")))
    /\ theoretical # <<>> => Complete(theoretical, TheoryDone)

C2_Witness ==
  /\ sc.variant = "plain"
  /\ pc = "done"
  /\ Len(layers) = 3
  /\ Len(steps) >= 2
  /\ wd # Zero
  /\ \E s \in DOMAIN theoretical[layers[3]] :
        IndexOf(s) > 0 /\ theoretical[layers[3]][s] # empirical[layers[3]][s]

\* C3: with wd = 0 and a step list that starts at step 0, the theoretical and
\* the empirical value of step 0 are equal for every non-first layer, in the
\* no-momentum and in the momentum orchestrator.
C3_StepZeroAgrees ==
  (wd = Zero /\ steps[1] = 0) =>
    \A l \in DOMAIN theoretical :
       (0 \in DOMAIN theoretical[l] /\ l \in DOMAIN empirical
          /\ 0 \in DOMAIN empirical[l])
         => theoretical[l][0] = empirical[l][0]

C3_Witness ==
  /\ sc.variant = "momentum"
  /\ wd = Zero
  /\ steps[1] = 0
  /\ Len(layers) = 2
  /\ ~sc.buf0
  /\ pc = "done"
  /\ 0 \in DOMAIN theoretical[layers[2]]
  /\ 0 \in DOMAIN empirical[layers[2]]
  /\ \E x \in Range(empirical[layers[2]][0].data) : x # Zero


\* the momentum solver's time, homogeneous term and correction terms, read
\* from the snapshots
TimeAt(s) == XMul(XMul(lr, XSub(One, dampening)), Num(s))

HomogeneousAt(k, s) ==
  TScale(HomogeneousScale(gamma, omega, TimeAt(s)),
         TSub(out_synapses(TSq(Stored(steps[1], "params", layers[k + 1], "weight"))),
              in_synapses(TSq(Stored(steps[1], "params", layers[k], "weight")),
                          TSq(Stored(steps[1], "params", layers[k], "bias")))))

BufferAt(s, layer, base, j) ==
  Stored(s, "buffers", layer, base \o ".integral_buffer_" \o ToString(j))

TermFiniteAt(k, s, j) ==
  /\ AllFinite(BufferAt(s, layers[k + 1], "weight", j))
  /\ AllFinite(BufferAt(s, layers[k], "weight", j))
  /\ AllFinite(BufferAt(s, layers[k], "bias", j))

TermAt(k, s, j) ==
  TScale(XMul(XMul(Num(2), XMul(lr, XSub(One, dampening))),
              InhomogeneousScales(gamma, omega, TimeAt(s))[j]),
         TSub(out_synapses(BufferAt(s, layers[k + 1], "weight", j)),
              in_synapses(BufferAt(s, layers[k], "weight", j),
                          BufferAt(s, layers[k], "bias", j))))

\* how many correction terms the solver has dealt with for chain[k+1] at step s
TermsDealt(k, s) ==
  IF IndexOf(s) = 0 THEN 0
  ELSE IF pc = "correction_1" /\ li = k + 1 /\ step = s THEN 0
  ELSE IF pc = "correction_2" /\ li = k + 1 /\ step = s THEN 1
  ELSE 2

\* the homogeneous term plus the dealt-with correction terms whose tensors are
\* all finite
WithFiniteTerms(k, s, n) ==
  LET h == HomogeneousAt(k, s)
      h1 == IF n >= 1 /\ TermFiniteAt(k, s, 1) THEN TAdd(h, TermAt(k, s, 1)) ELSE h
  IN  IF n >= 2 /\ TermFiniteAt(k, s, 2) THEN TAdd(h1, TermAt(k, s, 2)) ELSE h1

\* a NaN sits in a buffer tensor of chain[k+1] at step s, a step after the first
NaNInBufferOf(k, s) ==
  /\ sc.variant = "momentum"
  /\ sc.fault.kind = "nonfinite"
  /\ sc.fault.val = NaN
  /\ sc.fault.step = s
  /\ IndexOf(s) > 0
  /\ sc.fault.key \in {KeyName(RawOf(layers[k + 1]), BufferSuffixes("momentum")[n]) :
                        n \in 1..4}

\* C4 as stated: when a buffer tensor of a layer holds NaN at a step of index
\* > 0, the value the momentum solver stores for that layer and step is the
\* homogeneous term alone, and is free of NaN.
C4_HomogeneousAlone ==
  \A k \in Pairs : \A s \in Range(steps) :
     (/\ NaNInBufferOf(k, s)
      /\ layers[k + 1] \in DOMAIN theoretical
      /\ s \in DOMAIN theoretical[layers[k + 1]]
      /\ TermsDealt(k, s) = 2)
       => /\ theoretical[layers[k + 1]][s] = HomogeneousAt(k, s)
          /\ \A x \in Range(theoretical[layers[k + 1]][s].data) : ~IsNaN(x)

\* C4: when a buffer tensor of a layer holds NaN at a step of index > 0, the
\* value the momentum solver stores for that layer and step is the homogeneous
\* term plus each of the two correction terms whose three tensors are all
\* finite; a term with the NaN among its tensors is left out, and the value
\* is free of NaN.
C4_FiniteTermsKept ==
  \A k \in Pairs : \A s \in Range(steps) :
     (/\ NaNInBufferOf(k, s)
      /\ layers[k + 1] \in DOMAIN theoretical
      /\ s \in DOMAIN theoretical[layers[k + 1]]
      /\ TermsDealt(k, s) = 2)
       => /\ theoretical[layers[k + 1]][s] = WithFiniteTerms(k, s, 2)
          /\ \A x \in Range(theoretical[layers[k + 1]][s].data) : ~IsNaN(x)

\* a NaN in weight buffer 1 of the middle layer of a 3-layer chain: its first
\* term is dropped and its value differs from the homogeneous term
C4_Witness ==
  /\ Len(layers) = 3
  /\ pc = "done"
  /\ \E s \in Range(steps) :
        /\ NaNInBufferOf(1, s)
        /\ sc.fault.key = KeyName(RawOf(layers[2]), "weight.integral_buffer_1")
        /\ ~TermFiniteAt(1, s, 1)
        /\ TermFiniteAt(1, s, 2)
        /\ theoretical[layers[2]][s] # HomogeneousAt(1, s)

\* C5: in the momentum solver at a step of index > 0, correction term j is
\* part of the stored value exactly when the out layer's weight buffer j and
\* the in layer's weight and bias buffer j are all finite, for j = 1 and j = 2
\* separately; the stored value never holds a non-finite number.
C5_TermIffFinite ==
  sc.variant = "momentum" =>
    \A l \in DOMAIN theoretical : \A s \in DOMAIN theoretical[l] :
       \E k \in Pairs :
          /\ layers[k + 1] = l
          /\ theoretical[l][s] = WithFiniteTerms(k, s, TermsDealt(k, s))
          /\ AllFinite(theoretical[l][s])

\* +inf in the in layer's bias buffer 2: term 2 is left out, term 1 is added
C5_Witness ==
  /\ sc.variant = "momentum"
  /\ pc = "done"
  /\ sc.fault.kind = "nonfinite"
  /\ sc.fault.val = PInf
  /\ \E k \in Pairs : \E s \in Range(steps) :
        /\ IndexOf(s) > 0
        /\ TermFiniteAt(k, s, 1)
        /\ ~TermFiniteAt(k, s, 2)
        /\ ~AllFinite(BufferAt(s, layers[k], "bias", 2))
        /\ theoretical[layers[k + 1]][s] # HomogeneousAt(k, s)
        /\ theoretical[layers[k + 1]][s] = TAdd(HomogeneousAt(k, s), TermAt(k, s, 1))

\* C6: neither solver reads the buffers group at step index 0, so a run whose
\* first snapshot holds no buffers does not fail for that, and the value of
\* that step is the decayed (scaled) initial condition alone; at every later
\* index each buffer suffix is read from the snapshot of the current step.
BareValue(k) ==
  IF sc.variant = "plain"
  THEN LET d == DecayAt(steps[1])
           Q(layer, base) == TScale(d, TSq(Stored(steps[1], "params", layer, base)))
       IN  TSub(out_synapses(Q(layers[k + 1], "weight")),
                in_synapses(Q(layers[k], "weight"), Q(layers[k], "bias")))
  ELSE HomogeneousAt(k, steps[1])

C6_NoBuffersAtFirstStep ==
  /\ \A n \in DOMAIN loads :
        loads[n].group = "buffers" =>
          /\ loads[n].i > 0
          /\ loads[n].step = Str(steps[loads[n].i + 1])
  /\ \A j \in 1..(TheoryDone - 1) : \A n \in DOMAIN BufferSuffixes(sc.variant) :
        \E m \in DOMAIN loads :
           loads[m] = [step |-> Str(steps[j + 1]), group |-> "buffers",
                       suffix |-> BufferSuffixes(sc.variant)[n],
                       by |-> "theory", i |-> j]
  /\ \A k \in Pairs :
        (layers[k + 1] \in DOMAIN theoretical
           /\ steps[1] \in DOMAIN theoretical[layers[k + 1]])
          => theoretical[layers[k + 1]][steps[1]] = BareValue(k)
  /\ (pc \notin {"reader", "returned"} /\ sc.fault.kind = "none"
        /\ ConvChain(sc.model) # <<>>) => pc # "failed"

C6_Witness ==
  /\ pc = "done"
  /\ ~sc.buf0
  /\ steps[1] = 0
  /\ Len(steps) >= 2
  /\ Len(layers) >= 2
  /\ "buffers" \notin DOMAIN files[FeatsPath(feats_dir, Str(0))]
  /\ \E m \in DOMAIN loads : loads[m].group = "buffers"

\* C7: load_features fails with the missing-file error whenever the snapshot
\* of a requested step does not exist, and a mapping it returns holds an entry
\* for every requested step under every layer.
RequestedMissing ==
  \E j \in DOMAIN req.steps : FeatsPath(feats_dir, req.steps[j]) \notin DOMAIN files

C7_MissingFileRaised ==
  pc = "returned" =>
    /\ RequestedMissing => resp.err = MissingFile
    /\ resp.err = "" =>
         \A j \in DOMAIN req.steps : \A l \in DOMAIN resp.feats :
            StepLabel(req.steps[j]) \in DOMAIN resp.feats[l]

\* C8: a load call whose group or tensor name is absent from the snapshot of
\* the step of index k is the last thing the orchestrator does: the run has
\* failed with the missing-key error, no record is returned, and no load and
\* no trajectory entry belongs to an index greater than k.
KeyAbsent(l) ==
  LET path == FeatsPath(feats_dir, l.step)
  IN  /\ path \in DOMAIN files
      /\ \/ l.group \notin DOMAIN files[path]
         \/ \E p \in DOMAIN RawNames(sc.model) :
              KeyName(RawNames(sc.model)[p], l.suffix)
                \notin DOMAIN files[path][l.group]

NoEntryAfter(d, k) ==
  \A layer \in DOMAIN d : \A s \in DOMAIN d[layer] : IndexOf(s) <= k

C8_MissingKeySurfaces ==
  \A n \in DOMAIN loads :
     KeyAbsent(loads[n]) =>
       /\ n = Len(loads)
       /\ pc = "failed"
       /\ err = MissingKey
       /\ result = <<>>
       /\ i = loads[n].i
       /\ \A m \in DOMAIN loads : loads[m].i <= loads[n].i
       /\ NoEntryAfter(theoretical, loads[n].i)
       /\ NoEntryAfter(empirical, loads[n].i)

C8_Witness ==
  /\ pc = "failed"
  /\ err = MissingKey
  /\ sc.fault.kind = "nokey"
  /\ i >= 1
  /\ Len(steps) > i + 1
  /\ KeyAbsent(loads[Len(loads)])
  /\ result = <<>>

\* C9: no snapshot handle is open between the steps of the orchestrator: each
\* get_features call closes the handle it opened, when it returns and when it
\* raises for a missing group or key.
C9_NoOpenHandle ==
  handles = 0

C9_Witness ==
  /\ pc = "failed"
  /\ err = MissingKey
  /\ Len(loads) >= 3
  /\ KeyAbsent(loads[Len(loads)])
  /\ handles = 0

\* C10: the record rescale or rescale_momentum returns has the two fields
\* empirical and theoretical; the keys of each are the non-first layers of the
\* conv-filtered chain, and under each layer the step keys are the steps given.
FullTrajectory(d) ==
  /\ DOMAIN d = {layers[j] : j \in 2..Len(layers)}
  /\ \A layer \in DOMAIN d : DOMAIN d[layer] = Range(steps)

C10_ReturnedRecord ==
  pc = "done" =>
    /\ DOMAIN result = {"empirical", "theoretical"}
    /\ FullTrajectory(result.empirical)
    /\ FullTrajectory(result.theoretical)

C10_Witness ==
  /\ pc = "done"
  /\ sc.variant = "momentum"
  /\ Len(layers) >= 3
  /\ Len(steps) >= 2
  /\ layers[1] \notin DOMAIN result.theoretical
  /\ DOMAIN result.empirical[layers[3]] = Range(steps)

Linear ==
  pc = "called" =>
    /\ resp.out_cW = TScale(req.c, resp.out_W)
    /\ resp.in_cW = TScale(req.c, resp.in_W)
    /\ resp.in_cWcb = TScale(req.c, resp.in_Wb)

RECURSIVE SumOver(_, _)
SumOver(T, J) ==
  IF J = {} THEN Zero
  ELSE LET j == CHOOSE j \in J : TRUE
       IN  XAdd(T.data[j], SumOver(T, J \ {j}))

\* the row-major positions of T whose index along axis 0 / axis 1 is n (0-based)
Axis0Is(T, n) ==
  {j \in DOMAIN T.data : (j - 1) \div (Prod(T.shape) \div T.shape[1]) = n}
Axis1Is(T, n) ==
  LET inner == Prod(T.shape) \div (T.shape[1] * T.shape[2])
  IN  {j \in DOMAIN T.data : ((j - 1) \div inner) % T.shape[2] = n}

C13_AxisConvention ==
  pc = "called" =>
    /\ resp.in_W.shape = <<req.W.shape[1]>>
    /\ \A o \in 1..req.W.shape[1] :
          /\ resp.in_W.data[o] = SumOver(req.W, Axis0Is(req.W, o - 1))
          /\ resp.in_Wb.data[o] =
               IF req.b = None THEN resp.in_W.data[o]
               ELSE XAdd(resp.in_W.data[o], req.b.data[o])
    /\ resp.in_Wb.shape = <<req.W.shape[1]>>
    /\ resp.out_W.shape = <<req.W.shape[2]>>
    /\ \A n \in 1..req.W.shape[2] :
          resp.out_W.data[n] = SumOver(req.W, Axis1Is(req.W, n - 1))
    /\ resp.out_Wb = resp.out_W

C13_Witness ==
  /\ pc = "called"
  /\ req.W.shape = <<2, 3, 1, 1>>
  /\ req.b # None
  /\ AllFinite(req.W)
  /\ Len(resp.in_Wb.data) = 2
  /\ Len(resp.out_Wb.data) = 3
  /\ resp.in_Wb # resp.in_W
  /\ resp.out_W.data[1] # resp.out_W.data[3]

\* C14: every correction term the momentum solver leaves out because one of
\* its tensors is non-finite is reported in the run's output, for that layer
\* and step.
TermDropped(k, s, j) ==
  /\ sc.variant = "momentum"
  /\ layers[k + 1] \in DOMAIN theoretical
  /\ s \in DOMAIN theoretical[layers[k + 1]]
  /\ j <= TermsDealt(k, s)
  /\ ~TermFiniteAt(k, s, j)

C14_ExclusionLogged ==
  \A k \in Pairs : \A n \in DOMAIN steps : \A j \in 1..2 :
     TermDropped(k, steps[n], j) =>
       \E m \in DOMAIN log : log[m].layer = layers[k + 1] /\ log[m].step = steps[n]

\* C15: in the momentum solver the value under chain[k+1] pairs the out-side
\* tensors of chain[k+1] with the in-side tensors of chain[k], in the
\* homogeneous term and in both correction terms, the corrections scaled by
\* 2*lr*(1-dampening); and the carry moves on to chain[k+1] at its place in
\* the pass.
PairedValues ==
  \A l \in DOMAIN theoretical : \A s \in DOMAIN theoretical[l] :
     \E k \in Pairs :
        /\ layers[k + 1] = l
        /\ theoretical[l][s] = WithFiniteTerms(k, s, TermsDealt(k, s))

\* the squared first-step weight and bias of a layer, and its four buffers at
\* the step being processed, in the order of the carry
SquaredInitial(layer, base) == TSq(Stored(steps[1], "params", layer, base))
BuffersOf(layer) ==
  <<BufferAt(step, layer, "weight", 1), BufferAt(step, layer, "bias", 1),
    BufferAt(step, layer, "weight", 2), BufferAt(step, layer, "bias", 2)>>

WeightCarryAt(layer) ==
  /\ W_in = SquaredInitial(layer, "weight")
  /\ b_in = SquaredInitial(layer, "bias")

\* the value of chain[li] is under construction: its correction terms and
\* their finiteness tests are still to come
InCorrections == pc \in {"correction_1", "correction_2"}

\* as stated: the whole carry stays at chain[k] until the value of chain[k+1],
\* finiteness tests included, is complete
C15_CarryAfterValue ==
  sc.variant = "momentum" =>
    /\ PairedValues
    /\ InCorrections =>
         /\ WeightCarryAt(layers[li - 1])
         /\ g_in = BuffersOf(layers[li - 1])

\* W_in, b_in move on as soon as the homogeneous term is stored, before the
\* correction terms; the four buffers move on after the second of them
C15_CarryInTwoMoves ==
  sc.variant = "momentum" =>
    /\ PairedValues
    /\ pc = "momentum_layer" =>
         /\ WeightCarryAt(layers[li - 1])
         /\ i > 0 => g_in = BuffersOf(layers[li - 1])
    /\ InCorrections =>
         /\ WeightCarryAt(layers[li])
         /\ g_in = BuffersOf(layers[li - 1])

C15_Witness ==
  /\ sc.variant = "momentum"
  /\ pc = "correction_2"
  /\ li = 3
  /\ i >= 1
  /\ WeightCarryAt(layers[3])
  /\ ~WeightCarryAt(layers[2])
  /\ g_in = BuffersOf(layers[2])
  /\ g_in # BuffersOf(layers[3])
  /\ TermFiniteAt(2, step, 1)
  /\ theoretical[layers[3]][step] # HomogeneousAt(2, step)

\* C16: a trajectory entry, once written, keeps its value: in every step of a
\* run each existing entry of empirical and of theoretical is left as it is.
Kept(d, e) ==
  \A l \in DOMAIN d : \A s \in DOMAIN d[l] :
     l \in DOMAIN e /\ s \in DOMAIN e[l] /\ e[l][s] = d[l][s]

\* as stated: no entry of either trajectory ever changes
C16_NeverMutated ==
  [][Kept(empirical, empirical') /\ Kept(theoretical, theoretical')]_vars

\* the entries of theoretical other than the one of the layer and step whose
\* correction terms are being added
KeptBut(d, e, layer, s0) ==
  \A l \in DOMAIN d : \A s \in DOMAIN d[l] :
     (l # layer \/ s # s0) =>
        l \in DOMAIN e /\ s \in DOMAIN e[l] /\ e[l][s] = d[l][s]

\* empirical entries, and theoretical entries of the solver without momentum,
\* never change; an entry of the momentum solver changes only by the
\* correction terms added to it (lines 151, 164) before the pass moves on to
\* the next layer
C16_MutatedOnlyByOwnCorrections ==
  [][/\ Kept(empirical, empirical')
     /\ IF sc.variant = "momentum" /\ InCorrections
        THEN KeptBut(theoretical, theoretical', layers[li], step)
        ELSE Kept(theoretical, theoretical')]_vars

C16_Witness ==
  /\ sc.variant = "momentum"
  /\ pc = "done"
  /\ Len(steps) >= 2
  /\ Len(layers) >= 3
  /\ \E k \in Pairs :
        theoretical[layers[k + 1]][steps[2]] # HomogeneousAt(k, steps[2])

\* C17: the steps are processed in the order of the list; within a step the
\* buffers loads and the theoretical values come before the params loads and
\* the empirical values; the solver reads the buffers group only and the
\* empirical computer the params group only; both values of a step are
\* written before anything of the next step is loaded.
InLoop(l) == l.by # "rescale"

LoadsInOrder ==
  \A n \in DOMAIN loads : \A m \in DOMAIN loads :
     n < m =>
       /\ loads[n].i <= loads[m].i
       /\ InLoop(loads[n]) => InLoop(loads[m])
       /\ (loads[n].i = loads[m].i /\ loads[n].by = "empirical")
            => loads[m].by = "empirical"

C17_StepOrder ==
  /\ LoadsInOrder
  /\ \A n \in DOMAIN loads :
        /\ loads[n].step = Str(steps[loads[n].i + 1])
        /\ loads[n].by = "theory" => loads[n].group = "buffers"
        /\ loads[n].by = "empirical" => loads[n].group = "params"
        /\ loads[n].by = "empirical" => Complete(theoretical, loads[n].i + 1)
        /\ InLoop(loads[n]) =>
             /\ Complete(theoretical, loads[n].i)
             /\ Complete(empirical, loads[n].i)
  /\ \A l \in DOMAIN empirical : \A s \in DOMAIN empirical[l] :
        /\ Complete(theoretical, IndexOf(s) + 1)
        /\ \E n \in DOMAIN loads :
              loads[n].by = "empirical" /\ loads[n].i = IndexOf(s)

C17_Witness ==
  /\ pc = "done"
  /\ Len(steps) >= 3
  /\ Len(layers) >= 2
  /\ \E n \in DOMAIN loads : \E m \in DOMAIN loads :
        /\ n < m
        /\ loads[n].by = "empirical" /\ loads[n].i = 1
        /\ loads[m].by = "theory" /\ loads[m].i = 2

\* C18: during one run no (step, group, suffix) is loaded from the feature
\* store more than once.
SameLoad(a, b) == a.step = b.step /\ a.group = b.group /\ a.suffix = b.suffix

C18_NoRepeatedLoad ==
  \A n \in DOMAIN loads : \A m \in DOMAIN loads :
     n # m => ~SameLoad(loads[n], loads[m])

\* C19: the values stored for a step of index > 0 are a function of that
\* step's snapshot, the first step's weights and biases and the
\* hyperparameters alone, whatever the other steps of the list and their
\* order; W_0 and b_0 stay what the first load returned.
\* (raws: the raw names of the conv chain; snap: the snapshot of step s;
\* params0: the params group of the first step's snapshot)
EmpiricalOf(raws, snap, k) ==
  LET P(p, base) == TSq(snap["params"][KeyName(raws[p], base)])
  IN  TSub(out_synapses(P(k + 1, "weight")),
           in_synapses(P(k, "weight"), P(k, "bias")))

PlainOf(hp, raws, s, snap, params0, k) ==
  LET d == Exp(XMul(Num(-2 * s), XMul(hp.wd, hp.lr)))
      Q(p, base) ==
        TAdd(TScale(d, TSq(params0[KeyName(raws[p], base)])),
             TScale(XMul(XMul(hp.lr, hp.lr), d),
                    snap["buffers"][KeyName(raws[p], base \o ".integral_buffer")]))
  IN  TSub(out_synapses(Q(k + 1, "weight")),
           in_synapses(Q(k, "weight"), Q(k, "bias")))

MomentumOf(hp, raws, s, snap, params0, k) ==
  LET eff == XMul(hp.lr, XSub(One, hp.dampening))
      den == XMul(eff, XAdd(One, hp.momentum))
      g == XDiv(XSub(One, hp.momentum), den)
      w == Sqrt(XDiv(XMul(Num(4), hp.wd), den))
      t == XMul(eff, Num(s))
      P(p, base) == TSq(params0[KeyName(raws[p], base)])
      B(p, base, j) ==
        snap["buffers"][KeyName(raws[p], base \o ".integral_buffer_" \o ToString(j))]
      h == TScale(HomogeneousScale(g, w, t),
                  TSub(out_synapses(P(k + 1, "weight")),
                       in_synapses(P(k, "weight"), P(k, "bias"))))
      term(j) ==
        TScale(XMul(XMul(eff, Num(2)), InhomogeneousScales(g, w, t)[j]),
               TSub(out_synapses(B(k + 1, "weight", j)),
                    in_synapses(B(k, "weight", j), B(k, "bias", j))))
      fin(j) == /\ AllFinite(B(k + 1, "weight", j))
                /\ AllFinite(B(k, "weight", j))
                /\ AllFinite(B(k, "bias", j))
      h1 == IF fin(1) THEN TAdd(h, term(1)) ELSE h
  IN  IF fin(2) THEN TAdd(h1, term(2)) ELSE h1

ChainRaws == [p \in DOMAIN layers |-> RawOf(layers[p])]
SnapshotOf(s) == files[FeatsPath(feats_dir, Str(s))]

C19_StepLocal ==
  /\ \A k \in Pairs : \A n \in DOMAIN steps :
        LET s == steps[n]
            l == layers[k + 1]
        IN  /\ (l \in DOMAIN empirical /\ s \in DOMAIN empirical[l]) =>
                 empirical[l][s] = EmpiricalOf(ChainRaws, SnapshotOf(s), k)
            /\ (/\ l \in DOMAIN theoretical
                /\ s \in DOMAIN theoretical[l]
                /\ n > 1
                /\ TermsDealt(k, s) = 2) =>
                 theoretical[l][s] =
                   IF sc.variant = "plain"
                   THEN PlainOf(sc.hp, ChainRaws, s, SnapshotOf(s),
                                SnapshotOf(steps[1])["params"], k)
                   ELSE MomentumOf(sc.hp, ChainRaws, s, SnapshotOf(s),
                                   SnapshotOf(steps[1])["params"], k)
  /\ W_0 # <<>> =>
       \A l \in DOMAIN W_0 :
          /\ W_0[l] = [lab \in {Lab(steps[1])} |-> Stored(steps[1], "params", l, "weight")]
          /\ b_0[l] = [lab \in {Lab(steps[1])} |-> Stored(steps[1], "params", l, "bias")]

C19_Witness ==
  /\ pc = "done"
  /\ Len(steps) = 3
  /\ steps[1] # 0
  /\ steps[2] > steps[3]
  /\ Len(layers) >= 3
  /\ sc.variant = "momentum"
  /\ theoretical[layers[3]][steps[2]] # theoretical[layers[3]][steps[3]]
  /\ W_0[layers[1]][Lab(steps[1])] = Stored(steps[1], "params", layers[1], "weight")

=============================================================================
